---- MODULE Spec2Model ----
(***************************************************************************)
(* Model of the web-search research agent (services/backend).              *)
(*                                                                         *)
(* One HTTP request to POST /api/query runs main.query, which validates    *)
(* the question and awaits ResearchAgent.answer.  answer suspends at each  *)
(* outbound call (LLMClient.chat, ScraperClient.search); every suspension  *)
(* point is a separate step of the model, so requests can interleave.      *)
(*                                                                         *)
(* Text is modelled as a sequence of tokens (a fence of three backticks,   *)
(* a line break, a blank, a word, or the text of one JSON value), and the  *)
(* string operations of the code (strip, startswith, split, rsplit,        *)
(* json.loads, quote_plus, format) are computed on those sequences.        *)
(***************************************************************************)
EXTENDS Integers, Sequences, FiniteSets, TLC

VARIABLES active, pc, request, result, calls, exc, reply

vars == <<active, pc, request, result, calls, exc, reply>>

-----------------------------------------------------------------------------
(* Python / JSON values.  Every value is a record of the same shape:       *)
(*   t : "null" | "true" | "false" | "str" | "arr" | "obj"                 *)
(*   s : the text of a str (a token sequence)                              *)
(*   m : the members of an obj, a sequence of [k |-> key, v |-> value]     *)
(*   a : the elements of an arr                                            *)

PyNone == [t |-> "null", s |-> <<>>, m |-> <<>>, a |-> <<>>]

PyTrue == [t |-> "true", s |-> <<>>, m |-> <<>>, a |-> <<>>]

PyFalse == [t |-> "false", s |-> <<>>, m |-> <<>>, a |-> <<>>]

PyStr(s) == [t |-> "str", s |-> s, m |-> <<>>, a |-> <<>>]

PyList(a) == [t |-> "arr", s |-> <<>>, m |-> <<>>, a |-> a]

PyDict(m) == [t |-> "obj", s |-> <<>>, m |-> m, a |-> <<>>]

KV(k, v) == [k |-> k, v |-> v]

(* Tokens of a text. *)
Fence == [k |-> "fence", w |-> "fence", j |-> PyNone]

NL == [k |-> "nl", w |-> "\n", j |-> PyNone]

SP == [k |-> "sp", w |-> " ", j |-> PyNone]

Word(w) == [k |-> "word", w |-> w, j |-> PyNone]

JsonText(v) == [k |-> "json", w |-> "", j |-> v]

IsSpace(tok) == tok.k \in {"nl", "sp"}

(* Python truthiness: bool(value). *)
Truthy(v) ==
    CASE v.t = "true" -> TRUE
      [] v.t = "str" -> v.s # <<>>
      [] v.t = "arr" -> v.a # <<>>
      [] v.t = "obj" -> v.m # <<>>
      [] OTHER -> FALSE

(* The outcome of a call: exc = "" and the value, or the exception raised  *)
(* and its message.                                                        *)
Return(v) == [exc |-> "", msg |-> <<>>, v |-> v]

Raise(e, msg) == [exc |-> e, msg |-> msg, v |-> PyNone]

-----------------------------------------------------------------------------
(* String and JSON operations of the Python library, on token sequences.   *)

RECURSIVE LStrip(_)
LStrip(s) == IF s # <<>> /\ IsSpace(Head(s)) THEN LStrip(Tail(s)) ELSE s

RECURSIVE RStrip(_)
RStrip(s) ==
    IF s # <<>> /\ IsSpace(s[Len(s)]) THEN RStrip(SubSeq(s, 1, Len(s) - 1)) ELSE s

(* str.strip() *)
str_strip(s) == RStrip(LStrip(s))

(* str.startswith("```") *)
str_startswith_fence(s) == s # <<>> /\ Head(s).k = "fence"

(* str.split("\n", 1): one or two parts. *)
str_split_nl_1(s) ==
    LET at == {i \in 1..Len(s) : s[i].k = "nl"}
    IN  IF at = {} THEN <<s>>
        ELSE LET i == CHOOSE x \in at : \A y \in at : x <= y
             IN  <<SubSeq(s, 1, i - 1), SubSeq(s, i + 1, Len(s))>>

(* str.rsplit("```", 1): one or two parts. *)
str_rsplit_fence_1(s) ==
    LET at == {i \in 1..Len(s) : s[i].k = "fence"}
    IN  IF at = {} THEN <<s>>
        ELSE LET i == CHOOSE x \in at : \A y \in at : x >= y
             IN  <<SubSeq(s, 1, i - 1), SubSeq(s, i + 1, Len(s))>>

(* json.loads(s): the text must be one JSON value, blanks around it        *)
(* allowed; anything else raises json.JSONDecodeError.                     *)
json_loads(s) ==
    LET core == str_strip(s)
    IN  IF Len(core) = 1 /\ core[1].k = "json"
        THEN Return(core[1].j)
        ELSE Raise("JSONDecodeError", <<Word("Expecting value")>>)

(* dict.get(key, default): the last member named key wins, as in a JSON    *)
(* text with a repeated key.                                               *)
dict_get(d, key, default) ==
    LET at == {i \in 1..Len(d.m) : d.m[i].k = key}
    IN  IF at = {} THEN default
        ELSE d.m[CHOOSE x \in at : \A y \in at : x >= y].v

(* d[key] on a value: KeyError when absent, TypeError when d is no dict. *)
dict_item(d, key) ==
    IF d.t # "obj" THEN Raise("TypeError", <<Word("not subscriptable")>>)
    ELSE IF \E i \in 1..Len(d.m) : d.m[i].k = key
         THEN Return(dict_get(d, key, PyNone))
         ELSE Raise("KeyError", <<Word(key)>>)

(* f"{value}": a str is inserted as it is, another value as its repr. *)
format_value(v) == IF v.t = "str" THEN v.s ELSE <<JsonText(v)>>

(* a or b *)
py_or(a, b) == IF Truthy(a) THEN a ELSE b

(* urllib.parse.quote_plus(query): TypeError for a value that is no str;   *)
(* blanks become "+", other unsafe characters are percent-encoded.         *)
quote_token(tok) ==
    CASE tok.k = "sp" -> Word("+")
      [] tok.k = "nl" -> Word("%0A")
      [] tok.k = "fence" -> Word("%60%60%60")
      [] tok.k = "json" -> Word("%7B%7D")
      [] OTHER -> tok

quote_plus(query) ==
    IF query.t # "str"
    THEN Raise("TypeError", <<Word("quote_from_bytes() expected bytes")>>)
    ELSE Return(PyStr([i \in 1..Len(query.s) |-> quote_token(query.s[i])]))

-----------------------------------------------------------------------------
(* HTTP exchanges.  An exchange ends in a timeout, a transport error, or   *)
(* a response with a status and a body text.                               *)

Http(net, status, body) == [net |-> net, status |-> status, body |-> body]

Pending == Http("pending", 0, <<>>)

(* llm.py: the error detail of a non-200 response. *)
llm_error_detail(http) ==
    LET error_json == json_loads(http.body)
        error == IF error_json.exc = "" /\ error_json.v.t = "obj"
                 THEN dict_get(error_json.v, "error", PyDict(<<>>))
                 ELSE PyNone
    IN  IF error.t = "obj"
        THEN format_value(dict_get(error, "message", PyStr(http.body)))
        ELSE http.body

(* llm.py: data["choices"][0]["message"]["content"] *)
llm_content(data) ==
    LET choices == dict_item(data, "choices")
    IN  IF choices.exc # "" THEN choices
        ELSE IF choices.v.t # "arr"
             THEN Raise("TypeError", <<Word("not subscriptable")>>)
        ELSE IF choices.v.a = <<>>
             THEN Raise("IndexError", <<Word("list index out of range")>>)
        ELSE LET message == dict_item(choices.v.a[1], "message")
             IN  IF message.exc # "" THEN message
                 ELSE dict_item(message.v, "content")

(* LLMClient.chat, from the end of the HTTP exchange on.  LLMClient.prompt *)
(* only wraps the prompt in one user message and calls chat.               *)
chat(http) ==
    CASE http.net = "timeout" -> Raise("LLMError", <<Word("Request timed out")>>)
      [] http.net = "error" -> Raise("LLMError", <<Word("Request failed: ")>> \o http.body)
      [] http.status # 200 ->
            Raise("LLMError", <<Word("API request failed: ")>> \o llm_error_detail(http))
      [] OTHER ->
            LET data == json_loads(http.body)
            IN  IF data.exc # "" THEN data ELSE llm_content(data.v)

-----------------------------------------------------------------------------
(* scraper.py *)

SearchResult(title, url, description) ==
    PyDict(<<KV("title", title), KV("url", url), KV("description", description)>>)

(* Mutant: a record is kept on its title alone. *)
RECURSIVE parse_items_title_only(_, _)
parse_items_title_only(organic, acc) ==
    IF organic = <<>> THEN Return(PyList(acc))
    ELSE LET item == Head(organic)
             title == dict_get(item, "title", PyStr(<<>>))
             url == py_or(dict_get(item, "link", PyNone), dict_get(item, "url", PyStr(<<>>)))
             description == py_or(dict_get(item, "description", PyNone),
                                  dict_get(item, "snippet", PyStr(<<>>)))
         IN  IF Truthy(title)
             THEN parse_items_title_only(Tail(organic),
                                         Append(acc, SearchResult(title, url, description)))
             ELSE parse_items_title_only(Tail(organic), acc)

(* The loop of _parse_search_results over the organic list: the results    *)
(* appended so far are acc.                                                *)
RECURSIVE parse_items(_, _)
parse_items(organic, acc) ==
    IF organic = <<>> THEN Return(PyList(acc))
    ELSE LET item == Head(organic)
         IN  IF item.t # "obj"
             THEN Raise("AttributeError", <<Word("no attribute 'get'")>>)
             ELSE LET title == dict_get(item, "title", PyStr(<<>>))
                      url == py_or(dict_get(item, "link", PyNone),
                                   dict_get(item, "url", PyStr(<<>>)))
                      description == py_or(dict_get(item, "description", PyNone),
                                           dict_get(item, "snippet", PyStr(<<>>)))
                  IN  IF Truthy(title) /\ Truthy(url)
                      THEN parse_items(Tail(organic),
                                       Append(acc, SearchResult(title, url, description)))
                      ELSE parse_items(Tail(organic), acc)

(* Mutant: the list is looked up under the primary field name only, and a  *)
(* body string is not parsed.                                              *)
_parse_search_results_primary_only(data) ==
    IF data.t # "obj" THEN Raise("AttributeError", <<Word("no attribute 'get'")>>)
    ELSE LET body == dict_get(data, "body", data)
         IN  IF body.t # "obj" THEN Return(PyList(<<>>))
             ELSE LET organic == py_or(dict_get(body, "organic", PyNone), PyList(<<>>))
                  IN  IF organic.t = "arr" THEN parse_items(organic.a, <<>>)
                      ELSE Raise("AttributeError", <<Word("no attribute 'get'")>>)

(* ScraperClient._parse_search_results followed by to_dict on each result  *)
(* (search_as_dict).                                                       *)
_parse_search_results(data) ==
    IF data.t # "obj" THEN Raise("AttributeError", <<Word("no attribute 'get'")>>)
    ELSE LET body0 == dict_get(data, "body", data)
             loaded == json_loads(body0.s)
         IN  IF body0.t = "str" /\ loaded.exc # "" THEN Return(PyList(<<>>))
             ELSE LET body == IF body0.t = "str" THEN loaded.v ELSE body0
                  IN  IF body.t # "obj"
                      THEN Raise("AttributeError", <<Word("no attribute 'get'")>>)
                      ELSE LET organic ==
                                   py_or(py_or(dict_get(body, "organic", PyNone),
                                               dict_get(body, "organic_results", PyNone)),
                                         PyList(<<>>))
                           IN  IF organic.t = "arr" THEN parse_items(organic.a, <<>>)
                               ELSE IF organic.t = "true"
                                    THEN Raise("TypeError", <<Word("not iterable")>>)
                               ELSE Raise("AttributeError", <<Word("no attribute 'get'")>>)

(* ScraperClient.search up to the HTTP request: the Google search URL. *)
google_url(query, num_results) ==
    LET encoded_query == quote_plus(query)
    IN  IF encoded_query.exc # "" THEN encoded_query
        ELSE Return(PyStr(<<Word("https://www.google.com/search?q=")>>
                          \o encoded_query.v.s
                          \o <<Word("&num="), Word(ToString(num_results))>>))

(* The error detail of a non-200 response of the search provider. *)
scraper_error_detail(http) ==
    LET error_json == json_loads(http.body)
    IN  IF error_json.exc = "" /\ error_json.v.t = "obj"
        THEN format_value(dict_get(error_json.v, "error", PyStr(http.body)))
        ELSE http.body

(* ScraperClient.search from the end of the HTTP exchange on, then         *)
(* search_as_dict.                                                         *)
search(http) ==
    CASE http.net = "timeout" -> Raise("ScraperError", <<Word("Request timed out")>>)
      [] http.net = "error" ->
            Raise("ScraperError", <<Word("Request failed: ")>> \o http.body)
      [] http.status # 200 ->
            Raise("ScraperError",
                  <<Word("API request failed: ")>> \o scraper_error_detail(http))
      [] OTHER ->
            LET data == json_loads(http.body)
            IN  IF data.exc # "" THEN data ELSE _parse_search_results(data.v)

-----------------------------------------------------------------------------
(* agent.py: the prompt templates, filled in by str.format. *)

DECISION_PROMPT(question) ==
    <<Word("You are a helpful assistant that decides ... Question: ")>>
    \o format_value(question)
    \o <<NL, NL, Word("Respond with ONLY a JSON object: needs_search, reason")>>

KEYWORD_PROMPT(question) ==
    <<Word("Extract the best search keywords ... Question: ")>>
    \o format_value(question)
    \o <<NL, NL, Word("Respond with ONLY a JSON object: keywords")>>

ANSWER_WITH_SEARCH_PROMPT(question, search_results) ==
    <<Word("You are a helpful research assistant ... Question: ")>>
    \o format_value(question)
    \o <<NL, NL, Word("Search Results:"), NL>>
    \o search_results
    \o <<NL, NL, Word("Instructions: ...")>>

ANSWER_DIRECT_PROMPT(question) ==
    <<Word("You are a helpful assistant ... Question: ")>>
    \o format_value(question)
    \o <<NL, NL, Word("Provide a clear, accurate, and helpful response.")>>

(* The response handling shared by _needs_web_search and                   *)
(* _extract_keywords: strip, drop a code fence, json.loads.                *)
load_response(response) ==
    IF response.t # "str"
    THEN Raise("AttributeError", <<Word("no attribute 'strip'")>>)
    ELSE LET stripped == str_strip(response.s)
         IN  IF str_startswith_fence(stripped)
             THEN LET parts == str_split_nl_1(stripped)
                  IN  IF Len(parts) < 2
                      THEN Raise("IndexError", <<Word("list index out of range")>>)
                      ELSE json_loads(str_rsplit_fence_1(parts[2])[1])
             ELSE json_loads(stripped)

(* The exceptions the two decoding stages catch. *)
Absorbed(e) == e \in {"JSONDecodeError", "LLMError"}

(* Mutant: the fallback of the decision gives no reason. *)
_needs_web_search_silent(out) ==
    LET data == IF out.exc # "" THEN out ELSE load_response(out.v)
    IN  IF data.exc # ""
        THEN IF Absorbed(data.exc) THEN Return(PyList(<<PyFalse, PyStr(<<>>)>>)) ELSE data
        ELSE IF data.v.t # "obj"
             THEN Raise("AttributeError", <<Word("no attribute 'get'")>>)
             ELSE Return(PyList(<<dict_get(data.v, "needs_search", PyFalse),
                                  dict_get(data.v, "reason", PyStr(<<>>))>>))

(* ResearchAgent._needs_web_search from the return of llm.prompt on; the   *)
(* value is the pair (needs_search, reason).                               *)
_needs_web_search(out) ==
    LET data == IF out.exc # "" THEN out ELSE load_response(out.v)
    IN  IF data.exc # ""
        THEN IF Absorbed(data.exc)
             THEN Return(PyList(<<PyFalse,
                                  PyStr(<<Word("Failed to determine, using direct answer")>>)>>))
             ELSE data
        ELSE IF data.v.t # "obj"
             THEN Raise("AttributeError", <<Word("no attribute 'get'")>>)
             ELSE Return(PyList(<<dict_get(data.v, "needs_search", PyFalse),
                                  dict_get(data.v, "reason", PyStr(<<>>))>>))

(* ResearchAgent._extract_keywords from the return of llm.prompt on. *)
_extract_keywords(out, question) ==
    LET data == IF out.exc # "" THEN out ELSE load_response(out.v)
    IN  IF data.exc # ""
        THEN IF Absorbed(data.exc) THEN Return(question) ELSE data
        ELSE IF data.v.t # "obj"
             THEN Raise("AttributeError", <<Word("no attribute 'get'")>>)
             ELSE Return(dict_get(data.v, "keywords", question))

(* ResearchAgent._search_web from the return of search_as_dict on. *)
_search_web(out) ==
    IF out.exc = "ScraperError" THEN Return(PyList(<<>>)) ELSE out

(* Mutant: the blocks are numbered by enumerate's default, from 0. *)
format_block_from_zero(i, r) ==
    <<NL, Word(ToString(i - 1)), Word(". ")>> \o format_value(dict_get(r, "title", PyNone))
    \o <<NL, Word("   URL: ")>> \o format_value(dict_get(r, "url", PyNone))
    \o <<NL, Word("   ")>> \o format_value(dict_get(r, "description", PyNone))
    \o <<NL>>

(* One numbered block of the formatted results. *)
format_block(i, r) ==
    <<NL, Word(ToString(i)), Word(". ")>> \o format_value(dict_get(r, "title", PyNone))
    \o <<NL, Word("   URL: ")>> \o format_value(dict_get(r, "url", PyNone))
    \o <<NL, Word("   ")>> \o format_value(dict_get(r, "description", PyNone))
    \o <<NL>>

(* The loop of _answer_with_results: enumerate(search_results, 1), the     *)
(* blocks of results i.. appended in order.                                *)
RECURSIVE format_results(_, _)
format_results(search_results, i) ==
    IF i > Len(search_results) THEN <<>>
    ELSE format_block(i, search_results[i]) \o format_results(search_results, i + 1)

-----------------------------------------------------------------------------
(* The inputs: questions, and the HTTP exchanges of the two backends.      *)

MaxOrganic == 2

Reqs == {1, 2}

Questions ==
    { <<Word("weather"), SP, Word("today")>>,
      <<Word("capital"), SP, Word("France")>>,
      <<>>,
      <<SP, NL>> }

(* The body of a chat completion whose message content is the text c. *)
CompletionBody(c) ==
    <<JsonText(PyDict(<<KV("choices", PyList(<<PyDict(<<KV("message",
        PyDict(<<KV("role", PyStr(<<Word("assistant")>>)),
                 KV("content", PyStr(c))>>))>>)>>))>>))>>

(* The exchanges with the completion backend that do not yield a text. *)
LLMFailures ==
    { Http("timeout", 0, <<>>),
      Http("error", 0, <<Word("connection reset")>>),
      Http("ok", 500, <<Word("Internal Server Error")>>),
      Http("ok", 429, <<JsonText(PyDict(<<KV("error",
          PyDict(<<KV("message", PyStr(<<Word("rate limit")>>))>>))>>))>>),
      Http("ok", 200, <<Word("<html>")>>),
      Http("ok", 200, <<JsonText(PyDict(<<>>))>>) }

LLMResponses(contents) ==
    LLMFailures \cup {Http("ok", 200, CompletionBody(c)) : c \in contents}

(* The ways a model wraps its payload p. *)
Bare(p) == <<p>>

Padded(p) == <<SP, p, NL>>

Fenced(p) == <<Fence, Word("json"), NL, p, NL, Fence>>

FencedNoBreak(p) == <<Fence, p, Fence>>

Wrappings(p) == {Bare(p), Padded(p), Fenced(p), FencedNoBreak(p)}

DecisionSearch ==
    PyDict(<<KV("needs_search", PyTrue), KV("reason", PyStr(<<Word("current events")>>))>>)

DecisionDirect ==
    PyDict(<<KV("needs_search", PyFalse), KV("reason", PyStr(<<Word("general knowledge")>>))>>)

DecisionContents ==
    Wrappings(JsonText(DecisionSearch))
    \cup { Bare(JsonText(DecisionDirect)),
           Fenced(JsonText(DecisionDirect)),
           Bare(JsonText(PyDict(<<KV("needs_search", PyTrue)>>))),
           Bare(JsonText(PyDict(<<KV("needs_search", PyFalse), KV("reason", PyNone)>>))),
           Bare(JsonText(PyDict(<<>>))),
           Bare(JsonText(PyList(<<>>))),
           Bare(Word("Sure")),
           Fenced(Word("Sure")) }

KeywordContents ==
    Wrappings(JsonText(PyDict(<<KV("keywords", PyStr(<<Word("forecast")>>))>>)))
    \cup { Bare(JsonText(PyDict(<<>>))),
           Bare(JsonText(PyDict(<<KV("keywords", PyNone)>>))),
           Bare(JsonText(PyStr(<<Word("forecast")>>))),
           Bare(Word("forecast")) }

AnswerContents == { <<Word("It"), SP, Word("rains.")>>, <<Word("Paris.")>> }

(* Records of a provider's organic list. *)
OrganicItems ==
    { PyDict(<<KV("title", PyStr(<<Word("A")>>)), KV("link", PyStr(<<Word("http://a")>>)),
               KV("description", PyStr(<<Word("da")>>))>>),
      PyDict(<<KV("title", PyStr(<<Word("B")>>)), KV("url", PyStr(<<Word("http://b")>>)),
               KV("snippet", PyStr(<<Word("sb")>>))>>),
      PyDict(<<KV("title", PyStr(<<>>)), KV("link", PyStr(<<Word("http://x")>>))>>),
      PyDict(<<KV("title", PyStr(<<Word("C")>>)), KV("description", PyStr(<<Word("dc")>>))>>) }

(* The default of the parameter num_results of _search_web. *)
num_results == 5

(* A provider's list of one valid record more than _search_web asks for. *)
LongOrganic ==
    [i \in 1..num_results + 1 |->
        PyDict(<<KV("title", PyStr(<<Word(ToString(i))>>)),
                 KV("link", PyStr(<<Word("http://r")>>)),
                 KV("description", PyStr(<<Word("d")>>))>>)]

OrganicLists == UNION {[1..n -> OrganicItems] : n \in 0..MaxOrganic}

OrganicFields == {"organic", "organic_results"}

(* The payloads of the provider for one organic list: the list under      *)
(* either field name, in a body object, in a body string, or at top level. *)
Payloads(organic) ==
    UNION { LET inner == PyDict(<<KV(f, PyList(organic))>>)
            IN  { PyDict(<<KV("status_code", PyStr(<<Word("200")>>)), KV("body", inner)>>),
                  PyDict(<<KV("body", PyStr(<<JsonText(inner)>>))>>),
                  inner }
            : f \in OrganicFields }

SearchFailures ==
    { Http("timeout", 0, <<>>),
      Http("error", 0, <<Word("connection refused")>>),
      Http("ok", 401, <<JsonText(PyDict(<<KV("error", PyStr(<<Word("bad token")>>))>>))>>),
      Http("ok", 200, <<Word("<html>")>>),
      Http("ok", 200, <<JsonText(PyDict(<<KV("body", PyStr(<<Word("<html>")>>))>>))>>),
      Http("ok", 200, <<JsonText(PyDict(<<KV("body", PyDict(<<>>))>>))>>),
      Http("ok", 200, <<JsonText(PyList(<<>>))>>) }

SearchResponses ==
    SearchFailures
    \cup {Http("ok", 200, <<JsonText(PyDict(<<KV("organic", PyList(LongOrganic))>>))>>)}
    \cup UNION {{Http("ok", 200, <<JsonText(d)>>) : d \in Payloads(o)} : o \in OrganicLists}

(* With two requests in progress together each draws its inputs from a    *)
(* part of the sets above: the products of the full sets are out of reach. *)
FewQuestions == {<<Word("weather"), SP, Word("today")>>, <<Word("capital"), SP, Word("France")>>, <<SP, NL>>}

FewDecisions ==
    { Http("timeout", 0, <<>>) }
    \cup { Http("ok", 200, CompletionBody(c)) :
             c \in { Bare(JsonText(DecisionSearch)), Bare(JsonText(DecisionDirect)),
                     Bare(JsonText(PyList(<<>>))) } }

FewKeywords ==
    { Http("timeout", 0, <<>>),
      Http("ok", 200,
           CompletionBody(Bare(JsonText(PyDict(<<KV("keywords", PyStr(<<Word("forecast")>>))>>))))) }

FewAnswers ==
    { Http("error", 0, <<Word("connection reset")>>) }
    \cup { Http("ok", 200, CompletionBody(c)) : c \in AnswerContents }

FewSearches ==
    { Http("timeout", 0, <<>>) }
    \cup { Http("ok", 200, <<JsonText(PyDict(<<KV("organic", PyList(o))>>))>>) :
             o \in {<<>>} \cup {<<x>> : x \in OrganicItems} }

-----------------------------------------------------------------------------
(* active is the set of requests the server receives; the state of a       *)
(* request r:                                                              *)
(*   pc[r]      where the request is: "idle", the coroutine awaited,       *)
(*              "returned" (answer returned), "raised" (an exception left  *)
(*              answer), "rejected" (query refused the question)           *)
(*   request[r] the QueryRequest                                           *)
(*   result[r]  the local dict result of answer                            *)
(*   calls[r]   the outbound calls made so far, the last one possibly      *)
(*              pending                                                    *)
(*   exc[r]     the exception that left answer, "" when none               *)
(*   reply[r]   the HTTP reply of the endpoint                             *)

NoRequest == [query |-> PyNone, use_web_search |-> TRUE]

NoResult ==
    [question |-> PyNone, answer |-> PyNone, used_search |-> FALSE,
     search_results |-> <<>>, reason |-> PyNone]

NoReply == [status |-> 0, body |-> PyNone]

Call(port, stage, text, temperature, num) ==
    [port |-> port, stage |-> stage, text |-> text, temperature |-> temperature,
     num |-> num, url |-> <<>>, out |-> Pending]

(* await self.llm.prompt(prompt, temperature=...) *)
llm_prompt(stage, prompt, temperature) == Call("llm", stage, prompt, temperature, 0)

(* The calls of r with the pending one answered by http. *)
Answered(r, http) == [calls[r] EXCEPT ![Len(calls[r])].out = http]

(* main.py: QueryResponse(...), validated by pydantic: answer and reason   *)
(* are declared str.                                                       *)
QueryResponse(res) ==
    IF res.answer.t = "str" /\ res.reason.t = "str"
    THEN [status |-> 200,
          body |-> PyDict(<<KV("answer", res.answer),
                            KV("used_search", IF res.used_search THEN PyTrue ELSE PyFalse),
                            KV("search_results", PyList(res.search_results)),
                            KV("reason", res.reason)>>)]
    ELSE [status |-> 500, body |-> PyStr(<<Word("Internal Server Error")>>)]

(* Mutant: the result is kept on the agent, which the requests share. *)
ReturnResult_shared(r, res, log) ==
    /\ pc' = [pc EXCEPT ![r] = "returned"]
    /\ result' = [q \in Reqs |-> IF q = r \/ pc[q] # "idle" THEN res ELSE result[q]]
    /\ calls' = [calls EXCEPT ![r] = log]
    /\ reply' = [reply EXCEPT ![r] = QueryResponse(res)]
    /\ UNCHANGED exc

(* answer returns res to query, which replies. *)
ReturnResult(r, res, log) ==
    /\ pc' = [pc EXCEPT ![r] = "returned"]
    /\ result' = [result EXCEPT ![r] = res]
    /\ calls' = [calls EXCEPT ![r] = log]
    /\ reply' = [reply EXCEPT ![r] = QueryResponse(res)]
    /\ UNCHANGED exc

(* An exception e answer does not catch leaves answer and query. *)
Propagate(r, e, res, log) ==
    /\ pc' = [pc EXCEPT ![r] = "raised"]
    /\ exc' = [exc EXCEPT ![r] = e]
    /\ result' = [result EXCEPT ![r] = res]
    /\ calls' = [calls EXCEPT ![r] = log]
    /\ reply' = [reply EXCEPT ![r] =
                    [status |-> 500, body |-> PyStr(<<Word("Internal Server Error")>>)]]

(* Mutant: the call is sent twice before answer suspends. *)
Await_sent_twice(r, stage, res, log, c) ==
    /\ pc' = [pc EXCEPT ![r] = stage]
    /\ result' = [result EXCEPT ![r] = res]
    /\ calls' = [calls EXCEPT ![r] = Append(Append(log, c), c)]
    /\ UNCHANGED <<exc, reply>>

(* answer suspends in the coroutine named stage on the call c. *)
Await(r, stage, res, log, c) ==
    /\ pc' = [pc EXCEPT ![r] = stage]
    /\ result' = [result EXCEPT ![r] = res]
    /\ calls' = [calls EXCEPT ![r] = Append(log, c)]
    /\ UNCHANGED <<exc, reply>>

(* result["answer"] = await self._answer_direct(question) *)
CallAnswerDirect(r, res, log) ==
    Await(r, "_answer_direct", res, log,
          llm_prompt("_answer_direct", ANSWER_DIRECT_PROMPT(res.question), "0.7"))

(* result["answer"] = await self._answer_with_results(question, results) *)
CallAnswerWithResults(r, res, log) ==
    Await(r, "_answer_with_results", res, log,
          llm_prompt("_answer_with_results",
                     ANSWER_WITH_SEARCH_PROMPT(res.question,
                                               format_results(res.search_results, 1)),
                     "0.7"))

(* search_results = await self._search_web(keywords); search builds the    *)
(* URL before it suspends.                                                 *)
CallSearchWeb(r, res, log, keywords) ==
    LET url == google_url(keywords, num_results)
    IN  IF url.exc # "" THEN Propagate(r, url.exc, res, log)
        ELSE Await(r, "_search_web", res, log,
                   [Call("scraper", "_search_web", keywords.s, "", num_results)
                        EXCEPT !.url = url.v.s])

(* Mutant: the flag is ignored and the decision is always made. *)
search_disabled_ignored(use_web_search) == FALSE

(* if not use_web_search: the decision is skipped. *)
search_disabled(use_web_search) == ~use_web_search

(* Mutant: the results are stored and used_search is left as it was. *)
store_results_only(res, search_results) ==
    [res EXCEPT !.search_results = search_results]

(* result["search_results"] = search_results; result["used_search"] = True *)
store_results(res, search_results) ==
    [res EXCEPT !.search_results = search_results, !.used_search = TRUE]

(* Mutant: the search is made whatever the decision. *)
search_needed_always(needs_search) == TRUE

(* if needs_search: the keyword and search stages are run. *)
search_needed(needs_search) == Truthy(needs_search)

(* Mutant: the search-augmented synthesis is run on an empty list too. *)
results_found_always(res) == TRUE

(* if search_results: the search-augmented synthesis, else the direct one. *)
results_found(res) == res.search_results # <<>>

(* Mutant: the handler starts over from a fresh result. *)
on_llm_error_reset(res, e) ==
    [res EXCEPT !.answer = PyStr(<<Word("Sorry, I encountered an error: ")>> \o e.msg),
                !.used_search = FALSE, !.search_results = <<>>]

(* except LLMError as e: the answer becomes the error message. *)
on_llm_error(res, e) ==
    [res EXCEPT !.answer = PyStr(<<Word("Sorry, I encountered an error: ")>> \o e.msg)]

(* Mutant: the result starts with used_search set. *)
new_result_searched(question) ==
    [question |-> question, answer |-> PyStr(<<>>), used_search |-> TRUE,
     search_results |-> <<>>, reason |-> PyStr(<<>>)]

(* The dict result when answer starts. *)
new_result(question) ==
    [question |-> question, answer |-> PyStr(<<>>), used_search |-> FALSE,
     search_results |-> <<>>, reason |-> PyStr(<<>>)]

(* The inputs a step draws from: all of them for a request on its own. *)
Drawn(all, few) == IF Cardinality(active) > 1 THEN few ELSE all

Init ==
    /\ active = {1}
    /\ pc = [r \in Reqs |-> "idle"]
    /\ request = [r \in Reqs |-> NoRequest]
    /\ result = [r \in Reqs |-> NoResult]
    /\ calls = [r \in Reqs |-> <<>>]
    /\ exc = [r \in Reqs |-> ""]
    /\ reply = [r \in Reqs |-> NoReply]

(* main.query up to the first suspension of answer. *)
query(r) ==
    /\ r \in active
    /\ pc[r] = "idle"
    /\ \E q \in Drawn(Questions, FewQuestions), use_web_search \in BOOLEAN :
          LET question == PyStr(q)
              res == new_result(question)
          IN  /\ request' = [request EXCEPT ![r] =
                                [query |-> question, use_web_search |-> use_web_search]]
              /\ IF str_strip(q) = <<>>
                 THEN /\ pc' = [pc EXCEPT ![r] = "rejected"]
                      /\ reply' = [reply EXCEPT ![r] =
                            [status |-> 400,
                             body |-> PyDict(<<KV("detail",
                                          PyStr(<<Word("Query cannot be empty")>>))>>)]]
                      /\ UNCHANGED <<result, calls, exc>>
                 ELSE IF search_disabled(use_web_search)
                 THEN CallAnswerDirect(r,
                          [res EXCEPT !.reason = PyStr(<<Word("Web search disabled")>>)],
                          <<>>)
                 ELSE Await(r, "_needs_web_search", res, <<>>,
                            llm_prompt("_needs_web_search", DECISION_PROMPT(question), "0.1"))
    /\ UNCHANGED active

(* The decision call returns: the rest of _needs_web_search, then answer   *)
(* up to its next suspension.                                              *)
needs_web_search(r) ==
    /\ pc[r] = "_needs_web_search"
    /\ \E http \in Drawn(LLMResponses(DecisionContents), FewDecisions) :
          LET log == Answered(r, http)
              decision == _needs_web_search(chat(http))
          IN  IF decision.exc # "" THEN Propagate(r, decision.exc, result[r], log)
              ELSE LET res == [result[r] EXCEPT !.reason = decision.v.a[2]]
                   IN  IF search_needed(decision.v.a[1])
                       THEN Await(r, "_extract_keywords", res, log,
                                  llm_prompt("_extract_keywords",
                                             KEYWORD_PROMPT(res.question), "0.1"))
                       ELSE CallAnswerDirect(r, res, log)
    /\ UNCHANGED <<active, request>>

(* The keyword call returns: the rest of _extract_keywords, then           *)
(* _search_web up to the HTTP request of the scraper.                      *)
extract_keywords(r) ==
    /\ pc[r] = "_extract_keywords"
    /\ \E http \in Drawn(LLMResponses(KeywordContents), FewKeywords) :
          LET log == Answered(r, http)
              keywords == _extract_keywords(chat(http), result[r].question)
          IN  IF keywords.exc # "" THEN Propagate(r, keywords.exc, result[r], log)
              ELSE CallSearchWeb(r, result[r], log, keywords.v)
    /\ UNCHANGED <<active, request>>

(* The search returns: the rest of _search_web, then answer up to the      *)
(* synthesis call.                                                         *)
search_web(r) ==
    /\ pc[r] = "_search_web"
    /\ \E http \in Drawn(SearchResponses, FewSearches) :
          LET log == Answered(r, http)
              found == _search_web(search(http))
          IN  IF found.exc # "" THEN Propagate(r, found.exc, result[r], log)
              ELSE LET res == store_results(result[r], found.v.a)
                   IN  IF results_found(res)
                       THEN CallAnswerWithResults(r, res, log)
                       ELSE CallAnswerDirect(r, res, log)
    /\ UNCHANGED <<active, request>>

(* The end of answer once the synthesis call gave out: except LLMError     *)
(* sets the answer to the error message; another exception leaves answer.  *)
finish(r, out, log) ==
    IF out.exc = "LLMError"
    THEN ReturnResult(r, on_llm_error(result[r], out), log)
    ELSE IF out.exc # "" THEN Propagate(r, out.exc, result[r], log)
    ELSE ReturnResult(r, [result[r] EXCEPT !.answer = out.v], log)

(* The search-augmented synthesis call returns. *)
answer_with_results(r) ==
    /\ pc[r] = "_answer_with_results"
    /\ \E http \in Drawn(LLMResponses(AnswerContents), FewAnswers) :
          finish(r, chat(http), Answered(r, http))
    /\ UNCHANGED <<active, request>>

(* The direct synthesis call returns. *)
answer_direct(r) ==
    /\ pc[r] = "_answer_direct"
    /\ \E http \in Drawn(LLMResponses(AnswerContents), FewAnswers) :
          finish(r, chat(http), Answered(r, http))
    /\ UNCHANGED <<active, request>>

Next ==
    \E r \in Reqs :
        \/ query(r)
        \/ needs_web_search(r)
        \/ extract_keywords(r)
        \/ search_web(r)
        \/ answer_with_results(r)
        \/ answer_direct(r)

Spec == Init /\ [][Next]_vars

(* The server receives both requests: the event loop runs the two          *)
(* coroutines on the one research_agent, switching at their awaits.        *)
InitConc ==
    /\ active = Reqs
    /\ pc = [r \in Reqs |-> "idle"]
    /\ request = [r \in Reqs |-> NoRequest]
    /\ result = [r \in Reqs |-> NoResult]
    /\ calls = [r \in Reqs |-> <<>>]
    /\ exc = [r \in Reqs |-> ""]
    /\ reply = [r \in Reqs |-> NoReply]

SpecConc == InitConc /\ [][Next]_vars

-----------------------------------------------------------------------------
(* Vocabulary of the properties. *)

(* answer has been entered for r. *)
Entered(r) == pc[r] \notin {"idle", "rejected"}

(* The calls of r at a port, or of a stage. *)
PortCalls(r, port) == {i \in 1..Len(calls[r]) : calls[r][i].port = port}

StageCalls(r, stage) == {i \in 1..Len(calls[r]) : calls[r][i].stage = stage}

(* The call of a stage has been answered for r. *)
StageDone(r, stage) ==
    \E i \in StageCalls(r, stage) : calls[r][i].out # Pending

(* What the port handed back for the call of a stage (made at most once). *)
LLMOutcome(r, stage) ==
    chat(calls[r][CHOOSE i \in StageCalls(r, stage) : TRUE].out)

SearchExchange(r) == calls[r][CHOOSE i \in StageCalls(r, "_search_web") : TRUE].out

(* A completion call handed back a text. *)
GaveText(out) == out.exc = "" /\ out.v.t = "str"

(* A text that holds no JSON object at all, wrapped or not. *)
NoJsonObject(text) == \A i \in 1..Len(text) : text[i].k = "json" => text[i].j.t # "obj"

(* The stage's completion call failed with the port's error, or its text   *)
(* cannot be read as a JSON object.                                        *)
StageFailed(r, stage) ==
    /\ StageDone(r, stage)
    /\ LET out == LLMOutcome(r, stage)
       IN  \/ out.exc = "LLMError"
           \/ GaveText(out) /\ NoJsonObject(out.v.s)

DisabledReason == PyStr(<<Word("Web search disabled")>>)

FailedReason == PyStr(<<Word("Failed to determine, using direct answer")>>)

ErrorPrefix == <<Word("Sorry, I encountered an error: ")>>

-----------------------------------------------------------------------------
(* C1: with use_web_search = false, every result answer returns has        *)
(* used_search = false, no search results and the reason "Web search       *)
(* disabled"; the search port is never called, and the only completion     *)
(* call of the invocation is the direct-answer synthesis call.             *)
C1_SearchDisabled ==
    \A r \in Reqs :
        Entered(r) /\ ~request[r].use_web_search =>
            /\ PortCalls(r, "scraper") = {}
            /\ Len(calls[r]) = 1
            /\ calls[r][1].stage = "_answer_direct"
            /\ calls[r][1].text = ANSWER_DIRECT_PROMPT(request[r].query)
            /\ pc[r] = "returned" =>
                  /\ result[r].used_search = FALSE
                  /\ result[r].search_results = <<>>
                  /\ result[r].reason = DisabledReason
                  /\ GaveText(LLMOutcome(r, "_answer_direct")) =>
                        result[r].answer = LLMOutcome(r, "_answer_direct").v

C1_Witness ==
    \E r \in Reqs :
        /\ pc[r] = "returned"
        /\ ~request[r].use_web_search
        /\ result[r].reason = DisabledReason
        /\ result[r].answer = PyStr(<<Word("Paris.")>>)

(* The stage whose call was the last one made for r. *)
LastStage(r) == IF calls[r] = <<>> THEN "" ELSE calls[r][Len(calls[r])].stage

(* An exception left answer while it handled the return of stage. *)
RaisedIn(r, stage) == pc[r] = "raised" /\ LastStage(r) = stage

(* A port handed back what its contract allows: a completion call a text   *)
(* or an LLMError, the search call a list or a ScraperError.               *)
WithinContract(c) ==
    \/ c.out = Pending
    \/ c.port = "llm" /\ (GaveText(chat(c.out)) \/ chat(c.out).exc = "LLMError")
    \/ c.port = "scraper" /\ search(c.out).exc \in {"", "ScraperError"}

(* C2: whatever the question, use_web_search and the outcomes of the port  *)
(* calls (a text or a classified error for a completion call, a list or a  *)
(* classified error for the search call), no exception leaves answer.      *)
C2_NoExceptionLeavesAnswer ==
    \A r \in Reqs :
        (\A i \in 1..Len(calls[r]) : WithinContract(calls[r][i])) => pc[r] # "raised"

(* C3: with search enabled, when the decision call fails or its response   *)
(* is not the expected JSON object, answer goes on as for needs_search =   *)
(* false: the fallback reason, used_search = false, no search results, no  *)
(* keyword call, no search call, and then the direct synthesis call.       *)
C3_DecisionFallback ==
    \A r \in Reqs :
        request[r].use_web_search /\ StageFailed(r, "_needs_web_search") =>
            /\ ~RaisedIn(r, "_needs_web_search")
            /\ result[r].reason = FailedReason
            /\ result[r].used_search = FALSE
            /\ result[r].search_results = <<>>
            /\ PortCalls(r, "scraper") = {}
            /\ StageCalls(r, "_extract_keywords") = {}
            /\ Len(calls[r]) = 2
            /\ calls[r][2].stage = "_answer_direct"

(* C4: when keyword extraction fails (its completion call fails, or its    *)
(* response is not the expected JSON object), the search port is called    *)
(* with the question itself as the query.                                  *)
C4_KeywordFallback ==
    \A r \in Reqs :
        StageFailed(r, "_extract_keywords") =>
            /\ ~RaisedIn(r, "_extract_keywords")
            /\ \E i \in PortCalls(r, "scraper") :
                  /\ i - 1 \in StageCalls(r, "_extract_keywords")
                  /\ calls[r][i].text = request[r].query.s

(* What the search stage handed to answer for r. *)
Found(r) == _search_web(search(SearchExchange(r)))

(* The search stage of r is over and yielded no result. *)
FoundNothing(r) == StageDone(r, "_search_web") /\ Found(r) = Return(PyList(<<>>))

(* The answer of a returned result is the text the stage's call gave. *)
AnswerFrom(r, stage) ==
    pc[r] = "returned" /\ GaveText(LLMOutcome(r, stage)) =>
        result[r].answer = LLMOutcome(r, stage).v

(* C5: when the decision was needs_search = true and the search stage      *)
(* yields no result, used_search is true, search_results is empty, the     *)
(* search-augmented synthesis call is never made, and the answer is what   *)
(* the direct synthesis call gives (the text it returns; when that call    *)
(* fails, C7 says what the answer is).                                     *)
C5_EmptySearchFallsBack ==
    \A r \in Reqs :
        FoundNothing(r) =>
            /\ result[r].used_search = TRUE
            /\ result[r].search_results = <<>>
            /\ StageCalls(r, "_answer_with_results") = {}
            /\ LastStage(r) = "_answer_direct"
            /\ AnswerFrom(r, "_answer_direct")

C5_Witness ==
    \E r \in Reqs :
        /\ pc[r] = "returned"
        /\ FoundNothing(r)
        /\ SearchExchange(r).net = "ok" /\ SearchExchange(r).status = 200
        /\ Truthy(_needs_web_search(LLMOutcome(r, "_needs_web_search")).v.a[1])
        /\ result[r].answer = PyStr(<<Word("Paris.")>>)

(* The failures of the search port: a timeout, a transport failure, a      *)
(* non-success status, a payload that cannot be parsed.                    *)
SearchPortFailure(http) ==
    \/ http.net \in {"timeout", "error"}
    \/ http.net = "ok" /\ http.status # 200
    \/ http.net = "ok" /\ http.status = 200 /\ json_loads(http.body).exc # ""

(* C6: on any failure of the search port the search stage yields the       *)
(* empty list and nothing propagates: answer goes on to the direct         *)
(* synthesis, with used_search = true and no search results.               *)
C6_SearchFailureAbsorbed ==
    \A r \in Reqs :
        StageDone(r, "_search_web") /\ SearchPortFailure(SearchExchange(r)) =>
            /\ ~RaisedIn(r, "_search_web")
            /\ result[r].used_search = TRUE
            /\ result[r].search_results = <<>>
            /\ LastStage(r) = "_answer_direct"
            /\ AnswerFrom(r, "_answer_direct")

(* C7: when a synthesis call fails with the port's error, answer returns   *)
(* a result whose answer is the error prefix followed by the error's       *)
(* message, and used_search, search_results and reason keep the values     *)
(* they had when the call was made.                                        *)
C7_SynthesisFailure ==
    [][\A r \in Reqs :
          /\ pc[r] \in {"_answer_direct", "_answer_with_results"}
          /\ pc'[r] # pc[r]
          /\ chat(calls'[r][Len(calls'[r])].out).exc = "LLMError"
          => /\ pc'[r] = "returned"
             /\ result'[r].answer =
                   PyStr(ErrorPrefix \o chat(calls'[r][Len(calls'[r])].out).msg)
             /\ result'[r].answer.s # <<>>
             /\ result'[r].used_search = result[r].used_search
             /\ result'[r].search_results = result[r].search_results
             /\ result'[r].reason = result[r].reason
             /\ result'[r].question = result[r].question]_vars

C7_Witness ==
    \E r \in Reqs :
        /\ pc[r] = "returned"
        /\ LastStage(r) = "_answer_with_results"
        /\ LLMOutcome(r, "_answer_with_results").exc = "LLMError"
        /\ result[r].used_search
        /\ result[r].search_results # <<>>
        /\ result[r].answer = PyStr(ErrorPrefix \o <<Word("Request timed out")>>)

(* part occurs in text at position p. *)
OccursAt(text, p, part) ==
    /\ p + Len(part) - 1 <= Len(text)
    /\ SubSeq(text, p, p + Len(part) - 1) = part

(* Where the block numbered i of the result res starts in text: the        *)
(* number, the title, and on the next line the URL.                        *)
BlockStarts(text, i, res) ==
    LET block == <<NL, Word(ToString(i)), Word(". ")>> \o dict_get(res, "title", PyNone).s
                 \o <<NL, Word("   URL: ")>> \o dict_get(res, "url", PyNone).s \o <<NL>>
    IN  {p \in 1..Len(text) : OccursAt(text, p, block)}

(* C8: when the search stage returns k >= 1 results, the prompt of the     *)
(* search-augmented synthesis call holds, for every i in 1..k, one block   *)
(* numbered i with the title and then the URL of the i-th result, the      *)
(* blocks in the order of the results, and no other block.                 *)
C8_PromptListsResults ==
    \A r \in Reqs :
        LET found == IF StageDone(r, "_search_web") /\ Found(r).exc = ""
                     THEN Found(r).v.a ELSE <<>>
            k == Len(found)
        IN  k >= 1 =>
            \E c \in StageCalls(r, "_answer_with_results") :
                LET prompt == calls[r][c].text
                IN  /\ c - 1 \in StageCalls(r, "_search_web")
                    /\ \A i \in 1..k : Cardinality(BlockStarts(prompt, i, found[i])) = 1
                    /\ \A i \in 1..(k - 1) :
                          \A p \in BlockStarts(prompt, i, found[i]) :
                              \A q \in BlockStarts(prompt, i + 1, found[i + 1]) : p < q
                    /\ Cardinality({p \in 1..Len(prompt) : prompt[p] = Word("   URL: ")}) = k

C8_Witness ==
    \E r \in Reqs :
        /\ StageCalls(r, "_answer_with_results") # {}
        /\ Len(result[r].search_results) = 2
        /\ result[r].search_results[1] # result[r].search_results[2]

(* The organic list o of a provider payload made by Payloads(o). *)
OrganicOf(http) ==
    LET data == http.body[1].j
        body == dict_get(data, "body", data)
        inner == IF body.t = "str" THEN body.s[1].j ELSE body
    IN  inner.m[1].v.a

(* The search exchange of r ended with a payload that holds an organic     *)
(* list of records.                                                        *)
GotOrganic(r) ==
    /\ StageDone(r, "_search_web")
    /\ SearchExchange(r) \notin SearchFailures

(* The title, URL and description of a provider record. *)
TitleOf(item) == dict_get(item, "title", PyStr(<<>>))

UrlOf(item) ==
    IF dict_get(item, "link", PyStr(<<>>)).s # <<>>
    THEN dict_get(item, "link", PyStr(<<>>))
    ELSE dict_get(item, "url", PyStr(<<>>))

DescriptionOf(item) ==
    IF dict_get(item, "description", PyStr(<<>>)).s # <<>>
    THEN dict_get(item, "description", PyStr(<<>>))
    ELSE dict_get(item, "snippet", PyStr(<<>>))

(* The records of an organic list that have a title and a URL. *)
ValidRecords(o) == {i \in 1..Len(o) : TitleOf(o[i]).s # <<>> /\ UrlOf(o[i]).s # <<>>}

(* C9: the parsed result list is the sub-sequence of the records of the    *)
(* organic list whose title and URL are both non-empty, in provider order, *)
(* each as {title, url, description}; the other records are dropped and    *)
(* nothing is raised.                                                      *)
C9_ParsedIsValidSubsequence ==
    \A r \in Reqs :
        GotOrganic(r) =>
            LET o == OrganicOf(SearchExchange(r))
                valid == ValidRecords(o)
                parsed == result[r].search_results
            IN  /\ ~RaisedIn(r, "_search_web")
                /\ Len(parsed) = Cardinality(valid)
                /\ \A i \in valid :
                      parsed[Cardinality({j \in valid : j <= i})] =
                          PyDict(<<KV("title", TitleOf(o[i])), KV("url", UrlOf(o[i])),
                                   KV("description", DescriptionOf(o[i]))>>)

C9_Witness ==
    \E r \in Reqs :
        /\ GotOrganic(r)
        /\ Len(OrganicOf(SearchExchange(r))) = 2
        /\ ValidRecords(OrganicOf(SearchExchange(r))) = {2}
        /\ Len(result[r].search_results) = 1

(* C10: search_results is non-empty only if used_search is true. *)
C10_ResultsImplyUsedSearch ==
    \A r \in Reqs : result[r].search_results # <<>> => result[r].used_search

C10_Witness ==
    \E r \in Reqs :
        /\ pc[r] = "returned"
        /\ reply[r].status = 200
        /\ result[r].search_results # <<>>
        /\ result[r].used_search

-----------------------------------------------------------------------------
(* The decision of r: the first member of what _needs_web_search returned. *)
NeedsSearch(r) == _needs_web_search(LLMOutcome(r, "_needs_web_search")).v.a[1]

(* C11: in every result answer returns, used_search is true exactly when   *)
(* the search port was called during the invocation, whether the call      *)
(* gave results, none, or failed; it is false when use_web_search is false *)
(* and when the decision was needs_search = false.                         *)
C11_UsedSearchIffSearched ==
    \A r \in Reqs :
        pc[r] = "returned" =>
            /\ result[r].used_search <=> PortCalls(r, "scraper") # {}
            /\ ~request[r].use_web_search => ~result[r].used_search
            /\ request[r].use_web_search /\ ~Truthy(NeedsSearch(r)) =>
                  ~result[r].used_search

C11_Witness ==
    \E r \in Reqs :
        /\ pc[r] = "returned"
        /\ result[r].used_search
        /\ result[r].search_results = <<>>
        /\ SearchExchange(r) = Http("timeout", 0, <<>>)

(* C12 as stated: every invocation of answer makes at most three outbound  *)
(* calls, completion and search calls together, on every path.             *)
C12_AtMostThreeCalls == \A r \in Reqs : Len(calls[r]) <= 3

(* C12, amended: the outbound calls of an invocation form one sequence,    *)
(* each call answered before the next is made, of at most four calls: at   *)
(* most three completion calls and at most one search call.                *)
C12_AtMostFourCalls ==
    \A r \in Reqs :
        /\ Len(calls[r]) <= 4
        /\ Cardinality(PortCalls(r, "llm")) <= 3
        /\ Cardinality(PortCalls(r, "scraper")) <= 1
        /\ \A i \in 1..Len(calls[r]) - 1 : calls[r][i].out # Pending

C12_Witness ==
    \E r \in Reqs :
        /\ pc[r] = "returned"
        /\ Len(calls[r]) = 4
        /\ Cardinality(PortCalls(r, "llm")) = 3
        /\ Cardinality(PortCalls(r, "scraper")) = 1

(* The synthesis calls of r, direct or search-augmented. *)
SynthesisCalls(r) ==
    StageCalls(r, "_answer_direct") \cup StageCalls(r, "_answer_with_results")

(* answer is over for r, by a return or by an exception. *)
Over(r) == pc[r] \in {"returned", "raised"}

(* C13: within one invocation of answer the decision call, the keyword     *)
(* call and the search call are each made at most once, no two calls are   *)
(* in flight together, and, the ports handing back what their contracts    *)
(* allow, exactly one synthesis call is made when the invocation is over.  *)
C13_EachStageOnce ==
    \A r \in Reqs :
        /\ \A stage \in {"_needs_web_search", "_extract_keywords", "_search_web"} :
              Cardinality(StageCalls(r, stage)) <= 1
        /\ Cardinality({i \in 1..Len(calls[r]) : calls[r][i].out = Pending}) <= 1
        /\ Cardinality(SynthesisCalls(r)) <= 1
        /\ Over(r) /\ (\A i \in 1..Len(calls[r]) : WithinContract(calls[r][i])) =>
              Cardinality(SynthesisCalls(r)) = 1

(* The decision stage of r is complete: its call is answered and answer    *)
(* went on.                                                                *)
DecisionMade(r) ==
    StageDone(r, "_needs_web_search") /\ ~RaisedIn(r, "_needs_web_search")

(* A non-empty string. *)
NonEmptyStr(v) == v.t = "str" /\ v.s # <<>>

(* The JSON value a text holds. *)
JsonIn(text) == text[CHOOSE i \in 1..Len(text) : text[i].k = "json"].j

(* The members of an object under a key. *)
Members(obj, key) == {i \in 1..Len(obj.m) : obj.m[i].k = key}

(* C14 as stated: in every returned result for which search was disabled   *)
(* or the decision stage completed, reason is a non-empty string, whatever *)
(* the decision call handed back.                                          *)
C14_ReasonNonEmpty ==
    \A r \in Reqs :
        pc[r] = "returned" /\ (~request[r].use_web_search \/ DecisionMade(r)) =>
            NonEmptyStr(result[r].reason)

(* C14, amended: in every returned result reason is "Web search disabled"  *)
(* when search was disabled, the fallback reason when the decision call    *)
(* failed or its text held no JSON object, and otherwise the value the     *)
(* decision object carries under "reason", the empty string when it        *)
(* carries none.                                                           *)
C14_ReasonOfDecision ==
    \A r \in Reqs :
        pc[r] = "returned" =>
            IF ~request[r].use_web_search THEN result[r].reason = DisabledReason
            ELSE IF \/ ~GaveText(LLMOutcome(r, "_needs_web_search"))
                    \/ NoJsonObject(LLMOutcome(r, "_needs_web_search").v.s)
            THEN result[r].reason = FailedReason
            ELSE LET obj == JsonIn(LLMOutcome(r, "_needs_web_search").v.s)
                 IN  /\ obj.t = "obj"
                     /\ \A i \in Members(obj, "reason") : result[r].reason = obj.m[i].v
                     /\ Members(obj, "reason") = {} => result[r].reason = PyStr(<<>>)

C14_Witness ==
    \E r \in Reqs :
        /\ pc[r] = "returned"
        /\ DecisionMade(r)
        /\ result[r].used_search
        /\ result[r].reason = PyStr(<<>>)

(* The end of answer run on its own, the synthesis call answered by http. *)
synthesis_alone(res, http) ==
    IF chat(http).exc = "LLMError" THEN on_llm_error(res, chat(http))
    ELSE [res EXCEPT !.answer = chat(http).v]

(* The result answer returns for the request req when it runs on its own   *)
(* and its k-th outbound call is answered by outs[k].                      *)
answer_alone(req, outs) ==
    LET res == new_result(req.query)
    IN  IF search_disabled(req.use_web_search)
        THEN synthesis_alone([res EXCEPT !.reason = DisabledReason], outs[1])
        ELSE LET decision == _needs_web_search(chat(outs[1])).v
                 decided == [res EXCEPT !.reason = decision.a[2]]
             IN  IF ~Truthy(decision.a[1]) THEN synthesis_alone(decided, outs[2])
                 ELSE LET found == store_results(decided, _search_web(search(outs[3])).v.a)
                      IN  synthesis_alone(found, outs[4])

(* What the ports handed back to r, call by call. *)
Responses(r) == [i \in 1..Len(calls[r]) |-> calls[r][i].out]

(* C15: however the steps of two invocations of answer on the one agent    *)
(* interleave, the result each returns, and the reply built from it, is    *)
(* the one it returns on its own for the same request and the same port    *)
(* responses: nothing of it comes from the other request.                  *)
C15_ResultAsAlone ==
    \A r \in Reqs :
        pc[r] = "returned" =>
            /\ result[r] = answer_alone(request[r], Responses(r))
            /\ reply[r] = QueryResponse(answer_alone(request[r], Responses(r)))

(* Both requests returned, each after the other had started, with          *)
(* different results.                                                      *)
C15_Witness ==
    /\ active = Reqs
    /\ \A r \in Reqs : pc[r] = "returned"
    /\ request[1] # request[2]
    /\ result[1].used_search /\ ~result[2].used_search
    /\ result[1].answer # result[2].answer

(* C16: the search port is asked for num_results = 5 results, and the      *)
(* search_results of a returned result hold at most 5 records, the valid   *)
(* records of the provider's response in the provider's order, however     *)
(* many valid records that response holds.                                 *)
C16_AtMostFiveResults ==
    \A r \in Reqs :
        /\ \A i \in PortCalls(r, "scraper") : calls[r][i].num = 5
        /\ pc[r] = "returned" /\ result[r].used_search =>
              /\ Len(result[r].search_results) <= 5
              /\ GotOrganic(r) =>
                    LET o == OrganicOf(SearchExchange(r))
                        found == result[r].search_results
                    IN  \A i, j \in 1..Len(found) :
                            i < j => \E x, y \in ValidRecords(o) :
                                        /\ x < y
                                        /\ TitleOf(found[i]) = TitleOf(o[x])
                                        /\ TitleOf(found[j]) = TitleOf(o[y])

(* A text that, stripped, opens with a code fence. *)
IsFenced(text) == str_strip(text) # <<>> /\ str_strip(text)[1] = Fence

(* A text that holds a JSON object. *)
HoldsObject(text) == \E i \in 1..Len(text) : text[i].k = "json" /\ text[i].j.t = "obj"

(* The same payload with nothing around it. *)
Unwrapped(text) == Return(PyStr(<<JsonText(JsonIn(text))>>))

(* C17: a decision or keyword response that wraps a JSON object in a       *)
(* fenced code block decodes to the outcome of the object unwrapped, and   *)
(* every fenced response, one whose opening fence is not followed by a     *)
(* line break too, either decodes or takes the fallback of its stage:      *)
(* nothing is raised.                                                      *)
C17_FenceTolerated ==
    \A r \in Reqs :
        /\ StageDone(r, "_needs_web_search") =>
              LET out == LLMOutcome(r, "_needs_web_search")
              IN  GaveText(out) /\ IsFenced(out.v.s) =>
                      /\ _needs_web_search(out).exc = ""
                      /\ ~RaisedIn(r, "_needs_web_search")
                      /\ HoldsObject(out.v.s) =>
                            _needs_web_search(out) = _needs_web_search(Unwrapped(out.v.s))
        /\ StageDone(r, "_extract_keywords") =>
              LET out == LLMOutcome(r, "_extract_keywords")
                  question == request[r].query
              IN  GaveText(out) /\ IsFenced(out.v.s) =>
                      /\ _extract_keywords(out, question).exc = ""
                      /\ HoldsObject(out.v.s) =>
                            _extract_keywords(out, question)
                                = _extract_keywords(Unwrapped(out.v.s), question)

(* The question of r is empty or only whitespace. *)
BlankQuestion(r) == str_strip(request[r].query.s) = <<>>

(* The reply carries the four fields of the result as they are. *)
CarriesResult(rep, res) ==
    /\ rep.status = 200
    /\ dict_get(rep.body, "answer", PyNone) = res.answer
    /\ dict_get(rep.body, "used_search", PyNone) = (IF res.used_search THEN PyTrue ELSE PyFalse)
    /\ dict_get(rep.body, "search_results", PyNone) = PyList(res.search_results)
    /\ dict_get(rep.body, "reason", PyNone) = res.reason

(* C18: for an empty or whitespace-only question the endpoint replies 400  *)
(* without entering answer or calling a port; for every other question it  *)
(* enters answer and replies with the answer, used_search, search_results  *)
(* and reason of the result answer returned, unchanged.                    *)
C18_EndpointPassesResult ==
    \A r \in Reqs :
        pc[r] # "idle" =>
            /\ BlankQuestion(r) =>
                  pc[r] = "rejected" /\ reply[r].status = 400 /\ calls[r] = <<>>
            /\ ~BlankQuestion(r) => Entered(r)
            /\ pc[r] = "returned" => CarriesResult(reply[r], result[r])

(* C19: the search port is called only after the decision call has         *)
(* returned with the decision to search and after the keyword call has     *)
(* returned; the search-augmented synthesis call is made only with a       *)
(* non-empty list of results, the one the search call gave and the one     *)
(* stored in search_results; a synthesis call is the last outbound call of *)
(* its invocation.                                                         *)
C19_CallOrder ==
    \A r \in Reqs :
        /\ \A i \in PortCalls(r, "scraper") :
              /\ i = 3
              /\ calls[r][1].stage = "_needs_web_search" /\ calls[r][1].out # Pending
              /\ Truthy(NeedsSearch(r))
              /\ calls[r][2].stage = "_extract_keywords" /\ calls[r][2].out # Pending
        /\ \A i \in StageCalls(r, "_answer_with_results") :
              /\ i - 1 \in PortCalls(r, "scraper")
              /\ result[r].search_results # <<>>
              /\ result[r].search_results = Found(r).v.a
              /\ calls[r][i].text =
                    ANSWER_WITH_SEARCH_PROMPT(request[r].query,
                                              format_results(result[r].search_results, 1))
        /\ \A i \in SynthesisCalls(r) : i = Len(calls[r])

C19_Witness ==
    \E r \in Reqs :
        /\ pc[r] = "returned"
        /\ calls[r][1].stage = "_needs_web_search"
        /\ calls[r][2].stage = "_extract_keywords"
        /\ calls[r][3].stage = "_search_web"
        /\ calls[r][4].stage = "_answer_with_results"
        /\ Len(result[r].search_results) = 2

(* answer waits for r on an outbound call. *)
Waiting(r) == calls[r] # <<>> /\ calls[r][Len(calls[r])].out = Pending

(* C20: every call handing back what its port's contract allows (a text    *)
(* or a classified error, a list or a classified error), an invocation of  *)
(* answer that does not wait on a call has returned a result after a       *)
(* synthesis call: no failure and no malformed response of the decision,   *)
(* keyword or search stage stops it before.                                *)
C20_EndsWithResult ==
    \A r \in Reqs :
        Entered(r) /\ (\A i \in 1..Len(calls[r]) : WithinContract(calls[r][i])) =>
            \/ Waiting(r)
            \/ pc[r] = "returned" /\ SynthesisCalls(r) # {}

(* The provider answered r with a payload whose body is a string that is   *)
(* not JSON.                                                               *)
BodyNotJson(http) ==
    /\ http.net = "ok" /\ http.status = 200
    /\ json_loads(http.body).exc = ""
    /\ json_loads(http.body).v.t = "obj"
    /\ LET body == dict_get(json_loads(http.body).v, "body", PyNone)
       IN  body.t = "str" /\ json_loads(body.s).exc # ""

(* The body of a payload arrived as a string. *)
BodyIsString(http) == dict_get(http.body[1].j, "body", PyNone).t = "str"

(* C21: the parser returns the same list for the same records whether the  *)
(* list is under "organic" or under "organic_results", and whether the     *)
(* body is an object, a string holding that object as JSON, or the payload *)
(* itself; a body string that is not JSON yields the empty list.  The list *)
(* is the one the search stage hands to answer.                            *)
C21_SameListInEveryForm ==
    \A r \in Reqs :
        StageDone(r, "_search_web") =>
            /\ GotOrganic(r) =>
                  /\ Found(r).exc = ""
                  /\ \A d \in Payloads(OrganicOf(SearchExchange(r))) :
                        _parse_search_results(d) = Found(r)
                  /\ result[r].search_results = Found(r).v.a
            /\ BodyNotJson(SearchExchange(r)) =>
                  /\ search(SearchExchange(r)) = Return(PyList(<<>>))
                  /\ ~RaisedIn(r, "_search_web")
                  /\ result[r].search_results = <<>>

C21_Witness ==
    \E r \in Reqs :
        /\ pc[r] = "returned"
        /\ GotOrganic(r)
        /\ BodyIsString(SearchExchange(r))
        /\ Len(OrganicOf(SearchExchange(r))) = 2
        /\ Len(result[r].search_results) = 1

====
